---------------------------- MODULE Spec2Model ----------------------------
(***************************************************************************)
(* Amortization engine of home-calc (src/src/utils/mortgageCalculations.ts) *)
(* as a state machine: a call record holds the arguments of one call of an  *)
(* exported calculation function and the value it returned.                 *)
(*                                                                          *)
(* Numbers.  The source computes on IEEE doubles.  Here every amount of     *)
(* money is an integer count of units, UnitsPerCent units to the cent, and  *)
(* every product or quotient is rounded to the nearest unit, so the model   *)
(* keeps two more decimal places than the cent the schedule is emitted in.  *)
(* Math.pow(1 + r, n) is kept to PowScale parts of one.  Interest rates are *)
(* whole annual percents.  Values emitted through                           *)
(* Math.round(x * 100) / 100 are whole multiples of Cent.                   *)
(***************************************************************************)
EXTENDS Integers, Sequences, FiniteSets

VARIABLES inputs, called, ret,
          results, errors, isCalculating, timer, timeouts, changes,
          now, paymentDates

\* the clock new Date() reads, and the paymentDate column of every schedule
\* of the value returned (ret holds the other columns); the running page is
\* modelled without them
clock == <<now, paymentDates>>

\* the state of the mounted page besides its inputs: what it shows and the
\* timeouts it has pending
page == <<results, errors, isCalculating, timer, timeouts, changes>>

vars == <<inputs, called, ret, page, clock>>

---------------------------------------------------------------------------
(* Resolution of the arithmetic and bounds of the explored inputs.         *)

UnitsPerCent == 100

PowScale == 100000000

MaxTermYears == 2

\* 0.01, the literal compared against the running balance
Cent == UnitsPerCent

\* n dollars and c cents, in units
Money(n, c) == (n * 100 + c) * UnitsPerCent

MonthsPerYear == 12

\* annualInterestRate / 100 / 12: the divisor that turns an annual percent
\* into a monthly fraction
RateDivisor == 100 * MonthsPerYear

---------------------------------------------------------------------------
(* Arithmetic.                                                             *)

\* a * b / c rounded to the nearest integer, halves up, for b >= 0 and c > 0.
\* QR[n] is <<q, r>> with a * n = q * c + r and 0 <= r < c, found three bits
\* of n at a time, so that no intermediate value leaves 32 bits.
MulDiv(a, b, c) ==
  IF a = 0 \/ b = 0 THEN 0
  ELSE LET QR[n \in Nat] ==
             IF n = 0 THEN <<0, 0>>
             ELSE LET h == QR[n \div 8]
                      d == n % 8
                      t == 8 * h[2] + d * (a % c)
                  IN <<8 * h[1] + d * (a \div c) + (t \div c), t % c>>
           qr == QR[b]
       IN qr[1] + (IF 2 * qr[2] >= c THEN 1 ELSE 0)

\* a / b rounded to the nearest integer, halves up (Math.round)
RoundDiv(a, b) == (2 * a + b) \div (2 * b)

\* Math.ceil(a / b) for b > 0
CeilDiv(a, b) == -((-a) \div b)

\* Math.round(x * 100) / 100
RoundCents(x) == RoundDiv(x, UnitsPerCent) * UnitsPerCent

\* x * monthlyInterestRate, rounded to the nearest unit: the whole
\* RateDivisors of x and its remainder are multiplied apart, so that x may be
\* any 32-bit value
TimesMonthlyRate(x, annualInterestRate) ==
  (x \div RateDivisor) * annualInterestRate
    + RoundDiv((x % RateDivisor) * annualInterestRate, RateDivisor)

\* Math.pow(1 + monthlyInterestRate, numberOfPayments) in parts of PowScale,
\* as pw.n multiplications by 1 + monthlyInterestRate; PowLoop makes at most k
\* more of them (half by half)
RECURSIVE PowLoop(_, _, _, _)
PowLoop(pw, k, annualInterestRate, numberOfPayments) ==
  IF k = 0 \/ pw.n >= numberOfPayments THEN pw
  ELSE IF k = 1
  THEN [n |-> pw.n + 1, p |-> pw.p + TimesMonthlyRate(pw.p, annualInterestRate)]
  ELSE PowLoop(PowLoop(pw, k \div 2, annualInterestRate, numberOfPayments),
               k - (k \div 2), annualInterestRate, numberOfPayments)

Pow1PlusRate(annualInterestRate, numberOfPayments) ==
  PowLoop([n |-> 0, p |-> PowScale], numberOfPayments, annualInterestRate,
          numberOfPayments).p

\* the sum of s[lo], ..., s[hi]
RECURSIVE SumRange(_, _, _)
SumRange(s, lo, hi) ==
  IF lo > hi THEN 0
  ELSE IF lo = hi THEN s[lo]
  ELSE LET mid == (lo + hi) \div 2
       IN SumRange(s, lo, mid) + SumRange(s, mid + 1, hi)

---------------------------------------------------------------------------
(* calculateMonthlyPayment                                                 *)

\* variant: at a rate of 0 the loan is divided by its years, not its months
calculateMonthlyPayment_PerYear(loanAmount, annualInterestRate, loanTermYears) ==
  IF annualInterestRate = 0
  THEN RoundDiv(loanAmount, loanTermYears)
  ELSE MulDiv(TimesMonthlyRate(Pow1PlusRate(annualInterestRate,
                                            loanTermYears * MonthsPerYear),
                               annualInterestRate),
              loanAmount,
              Pow1PlusRate(annualInterestRate, loanTermYears * MonthsPerYear)
                - PowScale)

\* variant: the payment is rounded to the cent before it is returned
calculateMonthlyPayment_Rounded(loanAmount, annualInterestRate, loanTermYears) ==
  RoundCents(IF annualInterestRate = 0
             THEN RoundDiv(loanAmount, loanTermYears * MonthsPerYear)
             ELSE MulDiv(TimesMonthlyRate(Pow1PlusRate(annualInterestRate,
                                                       loanTermYears * MonthsPerYear),
                                          annualInterestRate),
                         loanAmount,
                         Pow1PlusRate(annualInterestRate,
                                      loanTermYears * MonthsPerYear) - PowScale))

calculateMonthlyPayment(loanAmount, annualInterestRate, loanTermYears) ==
  IF annualInterestRate = 0
  THEN RoundDiv(loanAmount, loanTermYears * MonthsPerYear)
  ELSE LET numberOfPayments == loanTermYears * MonthsPerYear
           pw == Pow1PlusRate(annualInterestRate, numberOfPayments)
       IN MulDiv(TimesMonthlyRate(pw, annualInterestRate), loanAmount,
                 pw - PowScale)

---------------------------------------------------------------------------
(* generatePaymentSchedule                                                 *)

\* if (remainingBalance < 0.01) remainingBalance = 0
SnapBalance(remainingBalance) ==
  IF remainingBalance < Cent THEN 0 ELSE remainingBalance

\* variant: the for loop stops one payment short
PaymentLoopRuns_Short(i, numberOfPayments) == i < numberOfPayments

\* for (let i = 1; i <= numberOfPayments; i++)
PaymentLoopRuns(i, numberOfPayments) == i <= numberOfPayments

\* the item pushed on the schedule, its amounts rounded to the cent
ScheduleItem(paymentNumber, principalPayment, interestPayment, totalPayment, remainingBalance, cumulativeInterest) ==
  [paymentNumber |-> paymentNumber,
   principalPayment |-> RoundCents(principalPayment),
   interestPayment |-> RoundCents(interestPayment),
   totalPayment |-> RoundCents(totalPayment),
   remainingBalance |-> RoundCents(remainingBalance),
   cumulativeInterest |-> RoundCents(cumulativeInterest)]

\* the constants of a schedule loop
LoopConstants(loanAmount, annualInterestRate, loanTermYears) ==
  [annualInterestRate |-> annualInterestRate,
   numberOfPayments |-> loanTermYears * MonthsPerYear,
   monthlyPayment |-> calculateMonthlyPayment(loanAmount, annualInterestRate,
                                              loanTermYears)]

\* variant: the payments are numbered from 0
LoopStart_FromZero(loanAmount) ==
  [paymentNumber |-> 0, remainingBalance |-> loanAmount,
   cumulativeInterest |-> 0, schedule |-> <<>>]

\* the loop's variables before its first iteration
LoopStart(loanAmount) ==
  [paymentNumber |-> 1, remainingBalance |-> loanAmount,
   cumulativeInterest |-> 0, schedule |-> <<>>]

\* the body of the for loop
PaymentLoopBody(st, c) ==
  LET interestPayment == TimesMonthlyRate(st.remainingBalance, c.annualInterestRate)
      principalPayment == c.monthlyPayment - interestPayment
      balance == SnapBalance(st.remainingBalance - principalPayment)
      cumulative == st.cumulativeInterest + interestPayment
  IN [paymentNumber |-> st.paymentNumber + 1,
      remainingBalance |-> balance,
      cumulativeInterest |-> cumulative,
      schedule |-> Append(st.schedule,
                          ScheduleItem(st.paymentNumber, principalPayment,
                                       interestPayment, c.monthlyPayment,
                                       balance, cumulative))]

\* the loop's variables after at most k more iterations, fewer when the loop
\* condition fails first (the k iterations are taken half by half)
RECURSIVE PaymentLoop(_, _, _)
PaymentLoop(st, k, c) ==
  IF k = 0 \/ ~PaymentLoopRuns(st.paymentNumber, c.numberOfPayments) THEN st
  ELSE IF k = 1 THEN PaymentLoopBody(st, c)
  ELSE PaymentLoop(PaymentLoop(st, k \div 2, c), k - (k \div 2), c)

generatePaymentSchedule(loanAmount, annualInterestRate, loanTermYears) ==
  PaymentLoop(LoopStart(loanAmount), loanTermYears * MonthsPerYear + 1,
              LoopConstants(loanAmount, annualInterestRate, loanTermYears)).schedule

\* paymentSchedule.reduce((sum, payment) => sum + payment.interestPayment, 0)
SumInterest(schedule) ==
  SumRange([k \in 1..Len(schedule) |-> schedule[k].interestPayment],
           1, Len(schedule))

\* paymentSchedule.reduce((sum, payment) => sum + payment.totalPayment, 0)
SumTotalPayment(schedule) ==
  SumRange([k \in 1..Len(schedule) |-> schedule[k].totalPayment],
           1, Len(schedule))

---------------------------------------------------------------------------
(* calculateMortgageDetails                                                *)

MortgageInputs(loanAmount, interestRate, loanTermYears) ==
  [loanAmount |-> loanAmount, interestRate |-> interestRate,
   loanTermYears |-> loanTermYears,
   propertyTax |-> 0, homeInsurance |-> 0, pmi |-> 0, hoaFees |-> 0]

\* variant: the yearly escrow items are added whole to the monthly payment
MonthlyEscrow_Yearly(in) ==
  in.propertyTax + in.homeInsurance + in.pmi + in.hoaFees

\* monthlyPropertyTax + monthlyInsurance + monthlyPMI + monthlyHOA
MonthlyEscrow(in) ==
  RoundDiv(in.propertyTax, MonthsPerYear)
    + RoundDiv(in.homeInsurance, MonthsPerYear)
    + RoundDiv(in.pmi, MonthsPerYear) + RoundDiv(in.hoaFees, MonthsPerYear)

calculateMortgageDetails(in) ==
  LET monthlyPrincipalAndInterest ==
        calculateMonthlyPayment(in.loanAmount, in.interestRate, in.loanTermYears)
      monthlyPayment == monthlyPrincipalAndInterest + MonthlyEscrow(in)
      paymentSchedule ==
        generatePaymentSchedule(in.loanAmount, in.interestRate, in.loanTermYears)
  IN [monthlyPayment |-> monthlyPayment,
      monthlyPrincipalAndInterest |-> monthlyPrincipalAndInterest,
      totalInterest |-> SumInterest(paymentSchedule),
      totalPayments |-> monthlyPayment * in.loanTermYears * MonthsPerYear,
      paymentSchedule |-> paymentSchedule]

---------------------------------------------------------------------------
(* generateScheduleWithExtras                                              *)

\* variant: the while loop does not look at the balance and allows one payment
\* more than double the term
ExtrasLoopRuns_Long(remainingBalance, paymentNumber, numberOfPayments) ==
  paymentNumber <= numberOfPayments * 2 + 1

\* while (remainingBalance > 0.01 && paymentNumber <= numberOfPayments * 2)
ExtrasLoopRuns(remainingBalance, paymentNumber, numberOfPayments) ==
  remainingBalance > Cent /\ paymentNumber <= numberOfPayments * 2

\* variant: a negative extra monthly payment is applied too
ExtraMonthlyApplies_NonZero(extraMonthlyPayment) == extraMonthlyPayment # 0

\* if (extraMonthlyPayment > 0)
ExtraMonthlyApplies(extraMonthlyPayment) == extraMonthlyPayment > 0

\* variant: the extra monthly payment is taken off the principal paid
PlusExtra_Minus(principalPayment, extraMonthlyPayment) ==
  principalPayment - extraMonthlyPayment

\* principalPayment += extraMonthlyPayment
PlusExtra(principalPayment, extraMonthlyPayment) ==
  principalPayment + extraMonthlyPayment

\* variant: the annual payment is made in the first period too
AnnualPaymentDue_FirstPeriod(enableAnnualPayment, annualExtraPayment, paymentNumber) ==
  /\ enableAnnualPayment
  /\ annualExtraPayment > 0
  /\ paymentNumber % MonthsPerYear = 1

\* if (enableAnnualPayment && annualExtraPayment > 0 &&
\*     paymentNumber % 12 === 1 && paymentNumber > 1)
AnnualPaymentDue(enableAnnualPayment, annualExtraPayment, paymentNumber) ==
  /\ enableAnnualPayment
  /\ annualExtraPayment > 0
  /\ paymentNumber % MonthsPerYear = 1
  /\ paymentNumber > 1

\* variant: no guard against overpaying
ClampPrincipal_None(principalPayment, remainingBalance) == principalPayment

\* if (principalPayment > remainingBalance) principalPayment = remainingBalance
ClampPrincipal(principalPayment, remainingBalance) ==
  IF principalPayment > remainingBalance THEN remainingBalance
  ELSE principalPayment

\* variant: the overpay branch leaves totalPayment as it was
ClampTotal_Unchanged(totalPayment, interestPayment, principalPayment, remainingBalance) ==
  totalPayment

\* totalPayment = interestPayment + principalPayment, in the same branch
ClampTotal(totalPayment, interestPayment, principalPayment, remainingBalance) ==
  IF principalPayment > remainingBalance THEN interestPayment + remainingBalance
  ELSE totalPayment

ExtrasConstants(loanAmount, annualInterestRate, loanTermYears, extraMonthlyPayment, annualExtraPayment, enableAnnualPayment) ==
  [annualInterestRate |-> annualInterestRate,
   numberOfPayments |-> loanTermYears * MonthsPerYear,
   baseMonthlyPayment |-> calculateMonthlyPayment(loanAmount, annualInterestRate,
                                                  loanTermYears),
   extraMonthlyPayment |-> extraMonthlyPayment,
   annualExtraPayment |-> annualExtraPayment,
   enableAnnualPayment |-> enableAnnualPayment]

\* the body of the while loop
ExtrasLoopBody(st, c) ==
  LET interestPayment == TimesMonthlyRate(st.remainingBalance, c.annualInterestRate)
      principal0 == c.baseMonthlyPayment - interestPayment
      total0 == c.baseMonthlyPayment
      monthly == ExtraMonthlyApplies(c.extraMonthlyPayment)
      principal1 == IF monthly THEN PlusExtra(principal0, c.extraMonthlyPayment)
                    ELSE principal0
      total1 == IF monthly THEN total0 + c.extraMonthlyPayment ELSE total0
      annual == AnnualPaymentDue(c.enableAnnualPayment, c.annualExtraPayment,
                                 st.paymentNumber)
      principal2 == IF annual THEN principal1 + c.annualExtraPayment ELSE principal1
      total2 == IF annual THEN total1 + c.annualExtraPayment ELSE total1
      principalPayment == ClampPrincipal(principal2, st.remainingBalance)
      totalPayment == ClampTotal(total2, interestPayment, principal2,
                                 st.remainingBalance)
      balance == st.remainingBalance - principalPayment
      cumulative == st.cumulativeInterest + interestPayment
  IN [paymentNumber |-> st.paymentNumber + 1,
      remainingBalance |-> balance,
      cumulativeInterest |-> cumulative,
      schedule |-> Append(st.schedule,
                          ScheduleItem(st.paymentNumber, principalPayment,
                                       interestPayment, totalPayment,
                                       balance, cumulative))]

\* the loop's variables after at most k more iterations, fewer when the loop
\* condition fails first
RECURSIVE ExtrasLoop(_, _, _)
ExtrasLoop(st, k, c) ==
  IF k = 0 \/ ~ExtrasLoopRuns(st.remainingBalance, st.paymentNumber,
                              c.numberOfPayments)
  THEN st
  ELSE IF k = 1 THEN ExtrasLoopBody(st, c)
  ELSE ExtrasLoop(ExtrasLoop(st, k \div 2, c), k - (k \div 2), c)

\* the loop is given one iteration more than the guard of the while allows, so
\* that it is the guard that ends it
generateScheduleWithExtras(loanAmount, annualInterestRate, loanTermYears, extraMonthlyPayment, annualExtraPayment, enableAnnualPayment) ==
  ExtrasLoop(LoopStart(loanAmount), 2 * loanTermYears * MonthsPerYear + 1,
             ExtrasConstants(loanAmount, annualInterestRate, loanTermYears,
                             extraMonthlyPayment, annualExtraPayment,
                             enableAnnualPayment)).schedule

---------------------------------------------------------------------------
(* calculateMortgageWithExtras                                             *)

calculateMortgageWithExtras(baseInputs, extraMonthlyPayment, annualExtraPayment, enableAnnualPayment) ==
  LET baseMortgage == calculateMortgageDetails(baseInputs)
      scheduleWithExtras ==
        generateScheduleWithExtras(baseInputs.loanAmount, baseInputs.interestRate,
                                   baseInputs.loanTermYears, extraMonthlyPayment,
                                   annualExtraPayment, enableAnnualPayment)
      totalInterest == SumInterest(scheduleWithExtras)
      baseMonthlyPayment ==
        calculateMonthlyPayment(baseInputs.loanAmount, baseInputs.interestRate,
                                baseInputs.loanTermYears)
  IN [monthlyPayment |-> baseMonthlyPayment + extraMonthlyPayment,
      totalInterest |-> totalInterest,
      totalPayments |-> SumTotalPayment(scheduleWithExtras),
      paymentSchedule |-> scheduleWithExtras,
      timeSavedMonths |-> Len(baseMortgage.paymentSchedule) - Len(scheduleWithExtras),
      interestSaved |-> baseMortgage.totalInterest - totalInterest]

---------------------------------------------------------------------------
(* calculateRefinanceComparison and validateRefinanceInputs                *)

\* the "very high number" returned when there are no monthly savings
NoBreakEven == 999

\* variant: the earlier definition's closingCosts / Math.max(monthlySavings, 1),
\* rounded up
BreakEvenMonths_Earlier(closingCosts, monthlySavings) ==
  CeilDiv(closingCosts, IF monthlySavings > 1 THEN monthlySavings ELSE 1)

\* if (monthlySavings > 0) Math.ceil(closingCosts / monthlySavings) else 999
BreakEvenMonths(closingCosts, monthlySavings) ==
  IF monthlySavings > 0 THEN CeilDiv(closingCosts, monthlySavings)
  ELSE NoBreakEven

\* the new loan as the earlier definition of calculateRefinanceComparison
\* amortizes it: the stated amount without the cash taken out
NewMortgageInputs_Earlier(in) ==
  MortgageInputs(in.newLoanAmount, in.newInterestRate, in.newLoanTermYears)

\* newMortgageInputs: the cash taken out is added to the loan amount
NewMortgageInputs(in) ==
  MortgageInputs(in.newLoanAmount + in.cashOut, in.newInterestRate,
                 in.newLoanTermYears)

\* totalSavings of the earlier definition: the cash taken out counts as saved
TotalSavings_Earlier(totalInterestSavings, closingCosts, cashOut) ==
  totalInterestSavings - closingCosts + cashOut

\* totalSavings: the cash taken out plays no part
TotalSavings(totalInterestSavings, closingCosts, cashOut) ==
  totalInterestSavings - closingCosts

\* monthlySavings of the earlier definition: against the new payment without
\* the extra monthly payment
MonthlySavings_Earlier(currentMortgage, newMortgage, newMortgageWithExtras) ==
  currentMortgage.monthlyPayment - newMortgage.monthlyPayment

\* monthlySavings: against the new payment with the extra monthly payment
MonthlySavings(currentMortgage, newMortgage, newMortgageWithExtras) ==
  currentMortgage.monthlyPayment - newMortgageWithExtras.monthlyPayment

calculateRefinanceComparison(in) ==
  LET currentMortgage ==
        calculateMortgageDetails(MortgageInputs(in.currentLoanAmount,
                                                in.currentInterestRate,
                                                in.currentRemainingYears))
      newMortgageInputs == NewMortgageInputs(in)
      newMortgage == calculateMortgageDetails(newMortgageInputs)
      newMortgageWithExtras ==
        calculateMortgageWithExtras(newMortgageInputs, in.extraMonthlyPayment,
                                    in.annualExtraPayment, in.enableAnnualPayment)
      monthlySavings ==
        MonthlySavings(currentMortgage, newMortgage, newMortgageWithExtras)
      totalInterestSavings ==
        currentMortgage.totalInterest - newMortgageWithExtras.totalInterest
  IN [currentMortgage |-> currentMortgage,
      newMortgage |-> newMortgage,
      newMortgageWithExtras |->
        [monthlyPayment |-> newMortgageWithExtras.monthlyPayment,
         monthlyPrincipalAndInterest |-> newMortgageWithExtras.monthlyPayment,
         totalInterest |-> newMortgageWithExtras.totalInterest,
         totalPayments |-> newMortgageWithExtras.totalPayments,
         paymentSchedule |-> newMortgageWithExtras.paymentSchedule],
      monthlySavings |-> monthlySavings,
      totalInterestSavings |-> totalInterestSavings,
      totalSavings |->
        TotalSavings(totalInterestSavings, in.closingCosts, in.cashOut),
      breakEvenMonths |-> BreakEvenMonths(in.closingCosts, monthlySavings),
      payoffTimeSaved |-> Len(currentMortgage.paymentSchedule)
                            - Len(newMortgageWithExtras.paymentSchedule)]

\* if (failed) errors.push(message)
Push(failed, message) == IF failed THEN <<message>> ELSE <<>>

\* the largest interest rate, in percent, and the longest term, in years, that
\* the validators let through
MaxInterestRate == 50

MaxLoanTermYears == 50

\* n dollars and c cents, in cents
Cents(n, c) == n * 100 + c

\* the largest loan amount validateMortgageInputs lets through, in dollars
MaxLoanDollars == 10000000

MoreThanDollars_OrEqual(x, d, perDollar) == x \div perDollar >= d

\* x > d dollars, for an amount x counted perDollar to the dollar (d dollars
\* counted in the units of the schedules do not fit 32 bits)
MoreThanDollars(x, d, perDollar) ==
  \/ x \div perDollar > d
  \/ x \div perDollar = d /\ x % perDollar > 0

\* validateMortgageInputs on a loan amount counted perDollar to the dollar
validateMortgageInputsOf(in, perDollar) ==
  Push(in.loanAmount <= 0, "Loan amount must be greater than 0")
  \o Push(MoreThanDollars(in.loanAmount, MaxLoanDollars, perDollar),
          "Loan amount must be less than $10,000,000")
  \o Push(in.interestRate < 0, "Interest rate cannot be negative")
  \o Push(in.interestRate > MaxInterestRate,
          "Interest rate seems unreasonably high (>50%)")
  \o Push(in.loanTermYears <= 0, "Loan term must be greater than 0 years")
  \o Push(in.loanTermYears > MaxLoanTermYears,
          "Loan term must be 50 years or less")

validateMortgageInputs(in) == validateMortgageInputsOf(in, Money(1, 0))

\* validateRefinanceInputs returning at its first error
validateRefinanceInputs_FirstOnly(in) ==
  LET collected ==
        Push(in.currentLoanAmount <= 0, "Current loan amount must be greater than 0")
        \o Push(in.currentInterestRate < 0 \/ in.currentInterestRate > MaxInterestRate,
                "Current interest rate must be between 0% and 50%")
        \o Push(in.currentRemainingYears <= 0
                  \/ in.currentRemainingYears > MaxLoanTermYears,
                "Current remaining years must be between 1 and 50")
        \o Push(in.newLoanAmount <= 0, "New loan amount must be greater than 0")
        \o Push(in.newInterestRate < 0 \/ in.newInterestRate > MaxInterestRate,
                "New interest rate must be between 0% and 50%")
        \o Push(in.newLoanTermYears <= 0 \/ in.newLoanTermYears > MaxLoanTermYears,
                "New loan term must be between 1 and 50 years")
        \o Push(in.closingCosts < 0, "Closing costs cannot be negative")
        \o Push(in.extraMonthlyPayment < 0, "Extra monthly payment cannot be negative")
        \o Push(in.annualExtraPayment < 0, "Annual extra payment cannot be negative")
  IN IF collected = <<>> THEN <<>> ELSE <<Head(collected)>>

validateRefinanceInputs(in) ==
  Push(in.currentLoanAmount <= 0, "Current loan amount must be greater than 0")
  \o Push(in.currentInterestRate < 0 \/ in.currentInterestRate > MaxInterestRate,
          "Current interest rate must be between 0% and 50%")
  \o Push(in.currentRemainingYears <= 0
            \/ in.currentRemainingYears > MaxLoanTermYears,
          "Current remaining years must be between 1 and 50")
  \o Push(in.newLoanAmount <= 0, "New loan amount must be greater than 0")
  \o Push(in.newInterestRate < 0 \/ in.newInterestRate > MaxInterestRate,
          "New interest rate must be between 0% and 50%")
  \o Push(in.newLoanTermYears <= 0 \/ in.newLoanTermYears > MaxLoanTermYears,
          "New loan term must be between 1 and 50 years")
  \o Push(in.closingCosts < 0, "Closing costs cannot be negative")
  \o Push(in.extraMonthlyPayment < 0, "Extra monthly payment cannot be negative")
  \o Push(in.annualExtraPayment < 0, "Annual extra payment cannot be negative")

---------------------------------------------------------------------------
(* paymentDate.  Every schedule generator reads the clock once, startDate  *)
(* = new Date(), and dates payment i one calendar month after payment      *)
(* i - 1.  A date is a year, a month counted from 0 as getMonth() counts   *)
(* it, and a day of the month; the clock is read in UTC, where             *)
(* toISOString() prints the date setMonth() has set.                       *)

IsLeapYear(year) == year % 4 = 0 /\ (year % 100 # 0 \/ year % 400 = 0)

DaysInMonth(year, month) ==
  IF month = 1 THEN (IF IsLeapYear(year) THEN 29 ELSE 28)
  ELSE IF month \in {3, 5, 8, 10} THEN 30 ELSE 31

\* paymentDate.setMonth(paymentDate.getMonth() + i): the month moves on by i,
\* and a day the month reached does not have runs over into the next month
SetMonth(date, i) ==
  LET months == date.month + i
      year == date.year + (months \div 12)
      month == months % 12
      days == DaysInMonth(year, month)
  IN IF date.date <= days
     THEN [year |-> year, month |-> month, date |-> date.date]
     ELSE [year |-> year + ((month + 1) \div 12), month |-> (month + 1) % 12,
           date |-> date.date - days]

\* toISOString().split('T')[0]: year, month counted from 1, day
ISODate(date) == <<date.year, date.month + 1, date.date>>

\* the paymentDate column of a schedule generated at startDate
PaymentDates(schedule, startDate) ==
  [k \in 1..Len(schedule) |->
     ISODate(SetMonth(startDate, schedule[k].paymentNumber))]

FirstDate == [year |-> 2024, month |-> 0, date |-> 31]

\* the days the clock is read on
Dates == {FirstDate, [year |-> 2024, month |-> 2, date |-> 1]}

Before(d, e) ==
  \/ d.year < e.year
  \/ d.year = e.year /\ d.month < e.month
  \/ d.year = e.year /\ d.month = e.month /\ d.date < e.date

---------------------------------------------------------------------------
(* The calls.                                                              *)

\* an empty loan amount field (parseFloat(...) || 0) and three loans
LoanAmounts == {0, Money(20, 0), Money(100, 0), Money(200, 0)}

InterestRates == {0, 6, 12, 24}

TermYears == 1..MaxTermYears

\* the extra monthly payments tried: one the form lets through although it is
\* negative, none, and positive ones from under a dollar up
ExtraMonthlyPayments ==
  {-Money(5, 0), 0, Money(0, 76), Money(7, 44), Money(8, 33), Money(25, 0)}

AnnualExtraPayments == {0, Money(50, 0)}

\* the form with the paydown fields edited
PaydownCases ==
  [currentLoanAmount : LoanAmounts,
   currentInterestRate : InterestRates,
   currentRemainingYears : TermYears,
   newLoanAmount : {Money(100, 0)},
   newInterestRate : {6},
   newLoanTermYears : {1},
   closingCosts : {Money(30, 0)},
   cashOut : {0},
   extraMonthlyPayment : ExtraMonthlyPayments,
   annualExtraPayment : AnnualExtraPayments,
   enableAnnualPayment : BOOLEAN]

\* the form with the refinance fields edited
RefinanceCases ==
  [currentLoanAmount : {Money(100, 0), Money(200, 0)},
   currentInterestRate : {6, 24},
   currentRemainingYears : TermYears,
   newLoanAmount : {Money(100, 0), Money(200, 0)},
   newInterestRate : {0, 12},
   newLoanTermYears : TermYears,
   closingCosts : {0, Money(3, 0), Money(30, 0)},
   cashOut : {0, Money(50, 0)},
   extraMonthlyPayment : {0, Money(0, 76)},
   annualExtraPayment : {0},
   enableAnnualPayment : {FALSE}]

\* the form holding a loan of 100000 at a rate of 0 over 10 years
ExampleCases ==
  [currentLoanAmount : {Money(100000, 0)},
   currentInterestRate : {0},
   currentRemainingYears : {10},
   newLoanAmount : {Money(100, 0)},
   newInterestRate : {6},
   newLoanTermYears : {1},
   closingCosts : {Money(30, 0)},
   cashOut : {0},
   extraMonthlyPayment : {0},
   annualExtraPayment : {0},
   enableAnnualPayment : {FALSE}]

\* the form holding an interest rate no validator accepts
InvalidRateCases ==
  [currentLoanAmount : {Money(100, 0)},
   currentInterestRate : {MaxInterestRate + 1},
   currentRemainingYears : {1},
   newLoanAmount : {Money(100, 0)},
   newInterestRate : {6},
   newLoanTermYears : {1},
   closingCosts : {Money(30, 0)},
   cashOut : {0},
   extraMonthlyPayment : {0, Money(7, 44)},
   annualExtraPayment : {0},
   enableAnnualPayment : {FALSE}]

\* a loan of ten cents, which validateMortgageInputs and
\* validateRefinanceInputs let through
SmallLoanCases ==
  [currentLoanAmount : {Money(0, 10)},
   currentInterestRate : {0, 6},
   currentRemainingYears : {1},
   newLoanAmount : {Money(100, 0)},
   newInterestRate : {6},
   newLoanTermYears : {1},
   closingCosts : {Money(30, 0)},
   cashOut : {0},
   extraMonthlyPayment : {0},
   annualExtraPayment : {0},
   enableAnnualPayment : {FALSE}]

\* a negative number typed into the cash-out field, larger than the new loan:
\* validateRefinanceInputs does not look at cashOut
NegativeCashOutCases ==
  [currentLoanAmount : {Money(100, 0)},
   currentInterestRate : {6},
   currentRemainingYears : {1},
   newLoanAmount : {Money(100, 0)},
   newInterestRate : {0},
   newLoanTermYears : {1},
   closingCosts : {Money(30, 0)},
   cashOut : {-Money(150, 0)},
   extraMonthlyPayment : {0, Money(0, 76)},
   annualExtraPayment : {0},
   enableAnnualPayment : {FALSE}]

Init ==
  /\ inputs \in PaydownCases \cup RefinanceCases \cup ExampleCases
                  \cup InvalidRateCases \cup SmallLoanCases
                  \cup NegativeCashOutCases
  /\ called = "none"
  /\ ret = <<>>
  /\ results = <<>>
  /\ errors = <<>>
  /\ isCalculating = FALSE
  /\ timer = <<>>
  /\ timeouts = <<>>
  /\ changes = 0
  /\ now \in Dates
  /\ paymentDates = <<>>

CurrentMortgageInputs ==
  MortgageInputs(inputs.currentLoanAmount, inputs.currentInterestRate,
                 inputs.currentRemainingYears)

Calculations ==
  {"calculateMortgageDetails", "calculateMortgageWithExtras",
   "calculateRefinanceComparison"}

\* what a calculation returns on the inputs, but for the paymentDate columns
Returned(calculation) ==
  CASE calculation = "calculateMortgageDetails" ->
         calculateMortgageDetails(CurrentMortgageInputs)
    [] calculation = "calculateMortgageWithExtras" ->
         calculateMortgageWithExtras(CurrentMortgageInputs,
                                     inputs.extraMonthlyPayment,
                                     inputs.annualExtraPayment,
                                     inputs.enableAnnualPayment)
    [] calculation = "calculateRefinanceComparison" ->
         calculateRefinanceComparison(inputs)

\* the paymentDate columns of the schedules of a value returned, generated at
\* startDate: one schedule, or the three of a refinance comparison
DatesReturned(returned, startDate) ==
  IF "paymentSchedule" \in DOMAIN returned
  THEN <<PaymentDates(returned.paymentSchedule, startDate)>>
  ELSE <<PaymentDates(returned.currentMortgage.paymentSchedule, startDate),
         PaymentDates(returned.newMortgage.paymentSchedule, startDate),
         PaymentDates(returned.newMortgageWithExtras.paymentSchedule, startDate)>>

\* HomePage, calculateMortgage: the validation errors of the mortgage entered
\* or, when there are none, its details
CallMortgageDetails ==
  /\ called = "none"
  /\ LET validationErrors == validateMortgageInputs(CurrentMortgageInputs)
     IN IF Len(validationErrors) > 0
        THEN /\ called' = "validateMortgageInputs"
             /\ ret' = validationErrors
             /\ paymentDates' = <<>>
        ELSE /\ called' = "calculateMortgageDetails"
             /\ ret' = Returned("calculateMortgageDetails")
             /\ paymentDates' = DatesReturned(ret', now)
  /\ UNCHANGED <<inputs, page, now>>

\* RefinancePage, paydownResults on the paydown tab: the current mortgage with
\* extra payments, unless the loan amount is 0
CallMortgageWithExtras ==
  /\ called = "none"
  /\ inputs.currentLoanAmount # 0
  /\ called' = "calculateMortgageWithExtras"
  /\ ret' = Returned("calculateMortgageWithExtras")
  /\ paymentDates' = DatesReturned(ret', now)
  /\ UNCHANGED <<inputs, page, now>>

\* RefinancePage, calculateRefinance: the validation errors of the inputs or,
\* when there are none, the comparison
CallRefinanceComparison ==
  /\ called = "none"
  /\ LET validationErrors == validateRefinanceInputs(inputs)
     IN IF Len(validationErrors) > 0
        THEN /\ called' = "validateRefinanceInputs"
             /\ ret' = validationErrors
             /\ paymentDates' = <<>>
        ELSE /\ called' = "calculateRefinanceComparison"
             /\ ret' = Returned("calculateRefinanceComparison")
             /\ paymentDates' = DatesReturned(ret', now)
  /\ UNCHANGED <<inputs, page, now>>

\* time passes
ClockAdvances ==
  /\ \E later \in Dates :
       /\ Before(now, later)
       /\ now' = later
  /\ UNCHANGED <<inputs, called, ret, paymentDates, page>>

\* the calculation that returned is invoked once more, on the same inputs
CallAgain ==
  /\ called \in Calculations
  /\ ret' = Returned(called)
  /\ paymentDates' = DatesReturned(ret', now)
  /\ UNCHANGED <<inputs, called, page, now>>

Next ==
  \/ CallMortgageDetails
  \/ CallMortgageWithExtras
  \/ CallRefinanceComparison
  \/ ClockAdvances
  \/ CallAgain

Spec == Init /\ [][Next]_vars

---------------------------------------------------------------------------
(* RefinancePage as it runs (src/src/components/RefinancePage.tsx): the    *)
(* inputs change under the user's hands, every change restarts the 500 ms  *)
(* debounce timeout, the debounce timeout starts calculateRefinance, whose *)
(* 300 ms timeout validates and computes from the inputs of the render     *)
(* that started it.  Time advances in steps of TickMs; a timeout fires     *)
(* when nothing is left of its delay.  results is <<>> for null and        *)
(* <<r>> for the comparison r.                                             *)

DebounceMs == 500

CalculateMs == 300

\* the step of time: the longest one that brings both delays to 0 exactly
TickMs ==
  CHOOSE d \in 1..CalculateMs :
    /\ DebounceMs % d = 0 /\ CalculateMs % d = 0
    /\ \A e \in (d + 1)..CalculateMs : DebounceMs % e # 0 \/ CalculateMs % e # 0

MaxChanges == 3

\* useState of inputs, with the default amounts and terms brought into the
\* range of the arithmetic
DefaultInputs ==
  [currentLoanAmount |-> Money(100, 0), currentInterestRate |-> 12,
   currentRemainingYears |-> 1, newLoanAmount |-> Money(100, 0),
   newInterestRate |-> 6, newLoanTermYears |-> 1,
   closingCosts |-> Money(30, 0), cashOut |-> 0, extraMonthlyPayment |-> 0,
   annualExtraPayment |-> 0, enableAnnualPayment |-> FALSE]

\* what parseFloat(event.target.value) || 0 yields for the values typed
TypedValues ==
  [currentLoanAmount |-> {0, Money(100, 0), Money(200, 0)},
   currentInterestRate |-> {12, MaxInterestRate + 1}]

\* setTimeout(callback, ms)
Timeout(ms, closure) == [remaining |-> ms, inputs |-> closure]

\* the page after its first render: nothing shown, the effect has set the
\* debounce timeout
PageInit ==
  /\ inputs = DefaultInputs
  /\ called = "none"
  /\ ret = <<>>
  /\ results = <<>>
  /\ errors = <<>>
  /\ isCalculating = FALSE
  /\ timer = <<Timeout(DebounceMs, DefaultInputs)>>
  /\ timeouts = <<>>
  /\ changes = 0
  /\ now = FirstDate
  /\ paymentDates = <<>>

\* handleInputChange(field) and the effect of the render that follows: the
\* cleanup clears the debounce timeout of the render before, the effect sets
\* a new one
handleInputChange ==
  /\ changes < MaxChanges
  /\ \E field \in DOMAIN TypedValues : \E value \in TypedValues[field] :
       LET next == [inputs EXCEPT ![field] = value]
       IN /\ inputs' = next
          /\ timer' = <<Timeout(DebounceMs, next)>>
  /\ changes' = changes + 1
  /\ UNCHANGED <<clock, called, ret, results, errors, isCalculating, timeouts>>

\* the debounce timeout fires and its guard holds: calculateRefinance sets
\* isCalculating and a timeout that keeps the inputs of this render
DebounceStarts ==
  /\ timer # <<>>
  /\ timer[1].remaining = 0
  /\ timer[1].inputs.currentLoanAmount > 0 /\ timer[1].inputs.newLoanAmount > 0
  /\ isCalculating' = TRUE
  /\ timeouts' = Append(timeouts, Timeout(CalculateMs, timer[1].inputs))
  /\ timer' = <<>>
  /\ UNCHANGED <<clock, inputs, called, ret, results, errors, changes>>

\* the debounce timeout fires and its guard fails: nothing is started
DebounceSkips ==
  /\ timer # <<>>
  /\ timer[1].remaining = 0
  /\ ~(timer[1].inputs.currentLoanAmount > 0 /\ timer[1].inputs.newLoanAmount > 0)
  /\ timer' = <<>>
  /\ UNCHANGED <<clock, inputs, called, ret, results, errors, isCalculating, timeouts, changes>>

\* the callback calculateRefinance hands to setTimeout, run on the inputs of
\* its closure: what it passes to setErrors and to setResults
RefinanceCallback(closure) ==
  LET validationErrors == validateRefinanceInputs(closure)
  IN IF Len(validationErrors) > 0
     THEN [errors |-> validationErrors, results |-> <<>>]
     ELSE [errors |-> <<>>, results |-> <<calculateRefinanceComparison(closure)>>]

\* every value the inputs of the page take under TypedValues
PageInputs ==
  {[DefaultInputs EXCEPT !.currentLoanAmount = a, !.currentInterestRate = r] :
     a \in TypedValues.currentLoanAmount, r \in TypedValues.currentInterestRate}

\* the callback's outcome on each of them
CallbackSets == [closure \in PageInputs |-> RefinanceCallback(closure)]

\* variant: the callback leaves isCalculating as it is
calculateRefinance_StillCalculating ==
  /\ timeouts # <<>>
  /\ Head(timeouts).remaining = 0
  /\ errors' = CallbackSets[Head(timeouts).inputs].errors
  /\ results' = CallbackSets[Head(timeouts).inputs].results
  /\ timeouts' = Tail(timeouts)
  /\ UNCHANGED <<clock, inputs, called, ret, timer, changes, isCalculating>>

\* the timeout of calculateRefinance fires
calculateRefinance ==
  /\ timeouts # <<>>
  /\ Head(timeouts).remaining = 0
  /\ errors' = CallbackSets[Head(timeouts).inputs].errors
  /\ results' = CallbackSets[Head(timeouts).inputs].results
  /\ isCalculating' = FALSE
  /\ timeouts' = Tail(timeouts)
  /\ UNCHANGED <<clock, inputs, called, ret, timer, changes>>

Elapse(t) == [t EXCEPT !.remaining = @ - TickMs]

\* TickMs pass: no pending timeout is due, every one comes closer
Tick ==
  /\ timer # <<>> \/ timeouts # <<>>
  /\ \A k \in 1..Len(timer) : timer[k].remaining > 0
  /\ \A k \in 1..Len(timeouts) : timeouts[k].remaining > 0
  /\ timer' = [k \in 1..Len(timer) |-> Elapse(timer[k])]
  /\ timeouts' = [k \in 1..Len(timeouts) |-> Elapse(timeouts[k])]
  /\ UNCHANGED <<clock, inputs, called, ret, results, errors, isCalculating, changes>>

\* the render: the loading indicator, and the results of the refinance tab
LoadingRendered == isCalculating

ResultsRendered == results # <<>> /\ ~isCalculating

PageNext ==
  \/ handleInputChange
  \/ DebounceStarts
  \/ DebounceSkips
  \/ calculateRefinance
  \/ Tick

PageSpec == PageInit /\ [][PageNext]_vars

\* the browser runs a timeout that is due, and time passes
FairPageSpec ==
  /\ PageSpec
  /\ WF_vars(DebounceStarts)
  /\ WF_vars(DebounceSkips)
  /\ WF_vars(calculateRefinance)
  /\ WF_vars(Tick)

---------------------------------------------------------------------------
(* HomePage: calculateMortgage on inputs that carry the yearly escrow      *)
(* items.                                                                  *)

\* HomePage inputs after typing
HomeCases ==
  [loanAmount : {Money(100, 0), Money(200, 0)},
   interestRate : {0, 6},
   loanTermYears : TermYears,
   propertyTax : {0, Money(10, 0), Money(12, 0)},
   homeInsurance : {0, Money(7, 0)},
   pmi : {0, Money(1, 0)},
   hoaFees : {0, Money(5, 0)}]

HomeInit ==
  /\ inputs \in HomeCases
  /\ called = "none"
  /\ ret = <<>>
  /\ results = <<>>
  /\ errors = <<>>
  /\ isCalculating = FALSE
  /\ timer = <<>>
  /\ timeouts = <<>>
  /\ changes = 0
  /\ now = FirstDate
  /\ paymentDates = <<>>

\* calculateMortgage: the validation errors of the inputs or, when there are
\* none, the details of the mortgage
calculateMortgage ==
  /\ called = "none"
  /\ LET validationErrors == validateMortgageInputs(inputs)
     IN IF Len(validationErrors) > 0
        THEN /\ called' = "validateMortgageInputs"
             /\ ret' = validationErrors
             /\ paymentDates' = <<>>
        ELSE /\ called' = "calculateMortgageDetails"
             /\ ret' = calculateMortgageDetails(inputs)
             /\ paymentDates' = DatesReturned(ret', now)
  /\ UNCHANGED <<inputs, page, now>>

HomeNext == calculateMortgage

HomeSpec == HomeInit /\ [][HomeNext]_vars

---------------------------------------------------------------------------
(* The validators on their own, called on inputs at and around every limit *)
(* they check.  They only compare, so the amounts are counted in cents,    *)
(* which brings the $10,000,000 limit within 32 bits.                      *)

\* HomePage inputs after typing.  Negative numbers can be typed.
MortgageValidatorCases ==
  [loanAmount : {-Cents(0, 1), 0, Cents(0, 1), Cents(MaxLoanDollars, 0),
                 Cents(MaxLoanDollars, 1)},
   interestRate : {-1, 0, MaxInterestRate, MaxInterestRate + 1},
   loanTermYears : {-1, 0, 1, MaxLoanTermYears, MaxLoanTermYears + 1}]

\* RefinancePage inputs after typing
RefinanceValidatorCases ==
  [currentLoanAmount : {-Cents(0, 1), 0, Cents(0, 1), Cents(MaxLoanDollars, 1)},
   currentInterestRate : {-1, 0, MaxInterestRate, MaxInterestRate + 1},
   currentRemainingYears : {-1, 0, MaxLoanTermYears, MaxLoanTermYears + 1},
   newLoanAmount : {0, Cents(0, 1)},
   newInterestRate : {-1, 0, MaxInterestRate, MaxInterestRate + 1},
   newLoanTermYears : {0, MaxLoanTermYears, MaxLoanTermYears + 1},
   closingCosts : {-Cents(0, 1), 0},
   cashOut : {-Cents(0, 1), 0},
   extraMonthlyPayment : {-Cents(0, 1), 0},
   annualExtraPayment : {-Cents(0, 1), 0},
   enableAnnualPayment : {FALSE}]

ValidatorInit ==
  /\ inputs \in MortgageValidatorCases \cup RefinanceValidatorCases
  /\ called = "none"
  /\ ret = <<>>
  /\ results = <<>>
  /\ errors = <<>>
  /\ isCalculating = FALSE
  /\ timer = <<>>
  /\ timeouts = <<>>
  /\ changes = 0
  /\ now = FirstDate
  /\ paymentDates = <<>>

CallValidateMortgageInputs ==
  /\ called = "none"
  /\ "loanAmount" \in DOMAIN inputs
  /\ called' = "validateMortgageInputs"
  /\ ret' = validateMortgageInputsOf(inputs, Cents(1, 0))
  /\ UNCHANGED <<inputs, page, clock>>

CallValidateRefinanceInputs ==
  /\ called = "none"
  /\ "currentLoanAmount" \in DOMAIN inputs
  /\ called' = "validateRefinanceInputs"
  /\ ret' = validateRefinanceInputs(inputs)
  /\ UNCHANGED <<inputs, page, clock>>

ValidatorNext ==
  \/ CallValidateMortgageInputs
  \/ CallValidateRefinanceInputs

ValidatorSpec == ValidatorInit /\ [][ValidatorNext]_vars

---------------------------------------------------------------------------
(* Properties of the values returned.                                      *)

Abs(x) == IF x < 0 THEN -x ELSE x

DetailsReturned == called = "calculateMortgageDetails"

ExtrasReturned == called = "calculateMortgageWithExtras"

\* a schedule has been returned by one of the two generators
ScheduleReturned == DetailsReturned \/ ExtrasReturned

TermPayments == inputs.currentRemainingYears * MonthsPerYear

\* the extra payments are ones validateRefinanceInputs lets through
NonNegativeExtras ==
  inputs.extraMonthlyPayment >= 0 /\ inputs.annualExtraPayment >= 0

C2_SumProperty ==
  ScheduleReturned =>
    LET s == ret.paymentSchedule
    IN Len(s) > 0 =>
         Abs(SumInterest(s) - s[Len(s)].cumulativeInterest) <= Cent

\* C3: for non-negative extras, the schedule of the extra-payment generator
\* ends with an emitted remainingBalance of exactly 0.
C3_TerminalBalanceZero ==
  (ExtrasReturned /\ NonNegativeExtras) =>
    LET s == ret.paymentSchedule
    IN Len(s) > 0 /\ s[Len(s)].remainingBalance = 0

RefinanceReturned == called = "calculateRefinanceComparison"

\* C6: calculateRefinanceComparison returns the sentinel 999 as
\* breakEvenMonths whenever monthlySavings <= 0, and otherwise the least whole
\* number of months whose savings cover closingCosts; breakEvenMonths is never
\* negative.
C6_BreakEven ==
  RefinanceReturned =>
    /\ ret.breakEvenMonths >= 0
    /\ ret.monthlySavings <= 0 => ret.breakEvenMonths = 999
    /\ ret.monthlySavings > 0 =>
         /\ ret.breakEvenMonths * ret.monthlySavings >= inputs.closingCosts
         /\ (ret.breakEvenMonths - 1) * ret.monthlySavings < inputs.closingCosts

\* C6 happens: savings are positive and the closing costs take more than one
\* month, and not a whole number of months, to recover.
C6_Witness ==
  /\ RefinanceReturned
  /\ ret.monthlySavings > 0
  /\ ret.breakEvenMonths > 1
  /\ ret.breakEvenMonths * ret.monthlySavings > inputs.closingCosts

\* C7: the schedule with extra payments has at most 2 * termYears * 12
\* entries whatever the extra payments are, and the schedule without them has
\* at most termYears * 12.
C7_LoopBound ==
  /\ ExtrasReturned => Len(ret.paymentSchedule) <= 2 * TermPayments
  /\ DetailsReturned => Len(ret.paymentSchedule) <= TermPayments

\* C7 happens: a schedule is returned for a negative extra monthly payment.
C7_Witness ==
  /\ ExtrasReturned
  /\ inputs.extraMonthlyPayment < 0
  /\ Len(ret.paymentSchedule) = TermPayments

\* the payment of period k when it is not cut down to the balance: the base
\* payment, the extra monthly payment when positive, and the annual payment
\* when lump is true
FullPayment(lump) ==
  calculateMonthlyPayment(inputs.currentLoanAmount, inputs.currentInterestRate,
                          inputs.currentRemainingYears)
    + (IF inputs.extraMonthlyPayment > 0 THEN inputs.extraMonthlyPayment ELSE 0)
    + (IF lump THEN inputs.annualExtraPayment ELSE 0)

C9_NoNegativeBalance ==
  (DetailsReturned \/ (ExtrasReturned /\ NonNegativeExtras)) =>
    \A k \in 1..Len(ret.paymentSchedule) :
      ret.paymentSchedule[k].remainingBalance >= 0

\* C9 happens: an extra monthly payment larger than the loan pays off exactly
\* the loan in one payment.
C9_Witness ==
  /\ ExtrasReturned
  /\ inputs.extraMonthlyPayment > inputs.currentLoanAmount
  /\ Len(ret.paymentSchedule) = 1
  /\ ret.paymentSchedule[1].principalPayment = inputs.currentLoanAmount
  /\ ret.paymentSchedule[1].remainingBalance = 0

\* C10: in every entry of every schedule the emitted principalPayment and
\* interestPayment add up to the emitted totalPayment within one cent.
C10_PaymentSplit ==
  ScheduleReturned =>
    \A k \in 1..Len(ret.paymentSchedule) :
      LET e == ret.paymentSchedule[k]
      IN Abs(e.principalPayment + e.interestPayment - e.totalPayment) <= Cent

\* C10 happens: a schedule with extra and lump-sum payments whose last
\* payment is cut down to the balance.
C10_Witness ==
  /\ ExtrasReturned
  /\ inputs.extraMonthlyPayment > 0
  /\ inputs.enableAnnualPayment
  /\ inputs.annualExtraPayment > 0
  /\ Len(ret.paymentSchedule) > MonthsPerYear
  /\ ret.paymentSchedule[Len(ret.paymentSchedule)].remainingBalance = 0
  /\ ret.paymentSchedule[Len(ret.paymentSchedule)].totalPayment
       < ret.paymentSchedule[1].totalPayment

\* C11: at an annual rate of 0 every entry of a schedule has an
\* interestPayment of 0 and a cumulativeInterest of 0, and every entry of the
\* schedule of calculateMortgageDetails but possibly the last has the same
\* principalPayment, the loan divided by termYears * 12, as emitted.
C11_ZeroRate ==
  (ScheduleReturned /\ inputs.currentInterestRate = 0) =>
    LET s == ret.paymentSchedule
    IN /\ \A k \in 1..Len(s) :
            s[k].interestPayment = 0 /\ s[k].cumulativeInterest = 0
       /\ DetailsReturned =>
            \A k \in 1..(Len(s) - 1) :
              s[k].principalPayment
                = RoundDiv(inputs.currentLoanAmount, TermPayments * UnitsPerCent)
                    * UnitsPerCent

\* C11 happens: a two-year loan at a rate of 0 is amortized in equal parts.
C11_Witness ==
  /\ DetailsReturned
  /\ inputs.currentInterestRate = 0
  /\ Len(ret.paymentSchedule) = 2 * MonthsPerYear
  /\ ret.paymentSchedule[1].principalPayment > 0
  /\ ret.paymentSchedule[1].principalPayment
       = ret.paymentSchedule[2 * MonthsPerYear - 1].principalPayment

\* the loan of example scenario 2: 100000 at a rate of 0 over 10 years
Example2 ==
  /\ DetailsReturned
  /\ inputs.currentLoanAmount = Money(100000, 0)
  /\ inputs.currentInterestRate = 0
  /\ inputs.currentRemainingYears = 10

C14_ValidatedCalls ==
  /\ DetailsReturned => validateMortgageInputs(CurrentMortgageInputs) = <<>>
  /\ RefinanceReturned => validateRefinanceInputs(inputs) = <<>>
  /\ ExtrasReturned =>
       \/ validateMortgageInputs(CurrentMortgageInputs) = <<>>
       \/ validateRefinanceInputs(inputs) = <<>>


---------------------------------------------------------------------------
(* Properties of the running page.                                         *)

\* what calculateRefinance sets when it runs on the inputs now on the page
ShowsCurrentInputs ==
  /\ errors = CallbackSets[inputs].errors
  /\ results = CallbackSets[inputs].results

\* C15: latest input wins.  Whenever the timeout of a calculation fires and
\* sets results or errors, the inputs the calculation was started for are the
\* inputs on the page at that moment: a calculation whose inputs have been
\* replaced since it started never publishes.
C15_LatestInputWins ==
  [][Len(timeouts') < Len(timeouts) => Head(timeouts).inputs = inputs]_vars

\* C16: once the inputs have stopped changing and the timeouts have fired,
\* the page shows, from then on, the validation errors or the results of the
\* inputs it holds, never those of earlier inputs.
C16_EventuallyCurrent == <>[]ShowsCurrentInputs


---------------------------------------------------------------------------
(* Properties of the validators.                                           *)

MortgageValidated == called = "validateMortgageInputs" /\ "loanAmount" \in DOMAIN inputs

RefinanceValidated ==
  called = "validateRefinanceInputs" /\ "currentLoanAmount" \in DOMAIN inputs

\* the messages of a returned list
Reported == {ret[k] : k \in 1..Len(ret)}

\* the message of a rule, if the rule is violated
Violated(broken, message) == IF broken THEN {message} ELSE {}

OutsideRange(x, lo, hi) == x < lo \/ x > hi

\* C17: both validators collect every violated rule.  The list returned holds
\* the message of a check exactly if that check fails, whatever the other
\* checks do, each once; so it is empty only if no check fails.
C17_AllErrorsCollected ==
  /\ MortgageValidated =>
       LET failing ==
             Violated(inputs.loanAmount <= 0,
                      "Loan amount must be greater than 0")
             \cup Violated(inputs.loanAmount > Cents(MaxLoanDollars, 0),
                           "Loan amount must be less than $10,000,000")
             \cup Violated(inputs.interestRate < 0,
                           "Interest rate cannot be negative")
             \cup Violated(inputs.interestRate > 50,
                           "Interest rate seems unreasonably high (>50%)")
             \cup Violated(inputs.loanTermYears <= 0,
                           "Loan term must be greater than 0 years")
             \cup Violated(inputs.loanTermYears > 50,
                           "Loan term must be 50 years or less")
       IN Reported = failing /\ Len(ret) = Cardinality(failing)
  /\ RefinanceValidated =>
       LET failing ==
             Violated(inputs.currentLoanAmount <= 0,
                      "Current loan amount must be greater than 0")
             \cup Violated(OutsideRange(inputs.currentInterestRate, 0, 50),
                           "Current interest rate must be between 0% and 50%")
             \cup Violated(OutsideRange(inputs.currentRemainingYears, 1, 50),
                           "Current remaining years must be between 1 and 50")
             \cup Violated(inputs.newLoanAmount <= 0,
                           "New loan amount must be greater than 0")
             \cup Violated(OutsideRange(inputs.newInterestRate, 0, 50),
                           "New interest rate must be between 0% and 50%")
             \cup Violated(OutsideRange(inputs.newLoanTermYears, 1, 50),
                           "New loan term must be between 1 and 50 years")
             \cup Violated(inputs.closingCosts < 0,
                           "Closing costs cannot be negative")
             \cup Violated(inputs.extraMonthlyPayment < 0,
                           "Extra monthly payment cannot be negative")
             \cup Violated(inputs.annualExtraPayment < 0,
                           "Annual extra payment cannot be negative")
       IN Reported = failing /\ Len(ret) = Cardinality(failing)

\* C17 witness: validateRefinanceInputs has returned all nine of its errors,
\* and validateMortgageInputs is not the one that returned
C17_Witness == RefinanceValidated /\ Len(ret) = 9

\* C18: the validators accept exactly the specified domain.
\* validateMortgageInputs returns the empty list iff 0 < loanAmount <=
\* 10,000,000, the rate is in [0, 50] and the term in (0, 50];
\* validateRefinanceInputs returns it iff both principals are > 0, both rates
\* in [0, 50], both terms in (0, 50], and closing costs, extra monthly payment
\* and annual extra payment are >= 0.
C18_AcceptedDomain ==
  /\ MortgageValidated =>
       (ret = <<>> <=>
          /\ 0 < inputs.loanAmount /\ inputs.loanAmount <= Cents(10000000, 0)
          /\ 0 <= inputs.interestRate /\ inputs.interestRate <= 50
          /\ 0 < inputs.loanTermYears /\ inputs.loanTermYears <= 50)
  /\ RefinanceValidated =>
       (ret = <<>> <=>
          /\ inputs.currentLoanAmount > 0 /\ inputs.newLoanAmount > 0
          /\ 0 <= inputs.currentInterestRate /\ inputs.currentInterestRate <= 50
          /\ 0 <= inputs.newInterestRate /\ inputs.newInterestRate <= 50
          /\ 0 < inputs.currentRemainingYears /\ inputs.currentRemainingYears <= 50
          /\ 0 < inputs.newLoanTermYears /\ inputs.newLoanTermYears <= 50
          /\ inputs.closingCosts >= 0
          /\ inputs.extraMonthlyPayment >= 0
          /\ inputs.annualExtraPayment >= 0)

\* C18 witness: validateMortgageInputs has accepted a loan of exactly
\* $10,000,000 at 50 % over 50 years
C18_Witness ==
  /\ MortgageValidated
  /\ ret = <<>>
  /\ inputs.loanAmount = Cents(10000000, 0)
  /\ inputs.interestRate = 50
  /\ inputs.loanTermYears = 50


---------------------------------------------------------------------------
(* Properties of the refinance comparison.                                 *)

\* C19: in calculateRefinanceComparison totalSavings is totalInterestSavings
\* less the closing costs, and totalInterestSavings is the total interest of
\* the current mortgage less that of the new mortgage with extras; the cash
\* taken out is never added to totalSavings.
C19_TotalSavings ==
  RefinanceReturned =>
    /\ ret.totalInterestSavings
         = ret.currentMortgage.totalInterest - ret.newMortgageWithExtras.totalInterest
    /\ ret.totalSavings = ret.totalInterestSavings - inputs.closingCosts

\* C19 witness: a comparison returned for a refinance with cash taken out and
\* closing costs to pay
C19_Witness ==
  /\ RefinanceReturned
  /\ inputs.cashOut > 0
  /\ inputs.closingCosts > 0
  /\ ret.totalSavings < ret.totalInterestSavings

\* the amount a schedule starts from, as its first entry shows it: the balance
\* left after the first payment and the principal that payment paid
AmortizedPrincipal(schedule) ==
  schedule[1].remainingBalance + schedule[1].principalPayment

\* C20: in calculateRefinanceComparison both newMortgage and
\* newMortgageWithExtras amortize newLoanAmount + cashOut, and currentMortgage
\* amortizes currentLoanAmount as it stands.
C20_NewPrincipal ==
  RefinanceReturned =>
    LET newInputs == MortgageInputs(inputs.newLoanAmount + inputs.cashOut,
                                    inputs.newInterestRate, inputs.newLoanTermYears)
        withExtras == calculateMortgageWithExtras(newInputs,
                        inputs.extraMonthlyPayment, inputs.annualExtraPayment,
                        inputs.enableAnnualPayment)
    IN /\ ret.newMortgage = calculateMortgageDetails(newInputs)
       /\ ret.newMortgageWithExtras.paymentSchedule = withExtras.paymentSchedule
       /\ ret.newMortgageWithExtras.totalInterest = withExtras.totalInterest
       /\ ret.currentMortgage = calculateMortgageDetails(CurrentMortgageInputs)
       /\ inputs.newLoanAmount + inputs.cashOut > 0 =>
            /\ Abs(AmortizedPrincipal(ret.newMortgage.paymentSchedule)
                     - (inputs.newLoanAmount + inputs.cashOut)) <= Cent
            /\ Abs(AmortizedPrincipal(ret.newMortgageWithExtras.paymentSchedule)
                     - (inputs.newLoanAmount + inputs.cashOut)) <= Cent
       /\ Abs(AmortizedPrincipal(ret.currentMortgage.paymentSchedule)
                - inputs.currentLoanAmount) <= Cent

\* C20 witness: a comparison returned for a refinance with cash taken out and
\* extra monthly payments, whose new schedules start above the stated amount
C20_Witness ==
  /\ RefinanceReturned
  /\ inputs.cashOut > 0
  /\ inputs.extraMonthlyPayment > 0
  /\ AmortizedPrincipal(ret.newMortgage.paymentSchedule) > inputs.newLoanAmount + Cent
  /\ AmortizedPrincipal(ret.newMortgageWithExtras.paymentSchedule) > inputs.newLoanAmount + Cent


\* the fixed payment of the new loan of a refinance, before any extra payment
NewBasePayment ==
  calculateMonthlyPayment(inputs.newLoanAmount + inputs.cashOut,
                          inputs.newInterestRate, inputs.newLoanTermYears)

\* C21: in calculateRefinanceComparison monthlySavings is the monthly payment
\* of the current mortgage less that of the new mortgage with extras, which is
\* the new loan's fixed payment plus extraMonthlyPayment; so a dollar more of
\* extraMonthlyPayment is a dollar less of monthlySavings.
C21_MonthlySavings ==
  RefinanceReturned =>
    /\ ret.newMortgageWithExtras.monthlyPayment
         = NewBasePayment + inputs.extraMonthlyPayment
    /\ ret.monthlySavings
         = ret.currentMortgage.monthlyPayment - ret.newMortgageWithExtras.monthlyPayment
    /\ ret.monthlySavings
         = (ret.currentMortgage.monthlyPayment - NewBasePayment)
             - inputs.extraMonthlyPayment

\* C21 witness: a comparison returned for a refinance with an extra monthly
\* payment, which the new payment reported includes
C21_Witness ==
  /\ RefinanceReturned
  /\ inputs.extraMonthlyPayment > 0
  /\ ret.newMortgageWithExtras.monthlyPayment > ret.newMortgage.monthlyPayment


---------------------------------------------------------------------------
(* Properties of repeated calls.                                           *)

\* C22: idempotence.  A calculation invoked again on the same inputs returns
\* schedules identical in every field, paymentDate included, whenever the
\* second invocation happens.
C22_Idempotent ==
  [][(called \in Calculations /\ called' = called /\ inputs' = inputs)
       => (ret' = ret /\ paymentDates' = paymentDates)]_vars


---------------------------------------------------------------------------
(* Properties of the escrow items.                                         *)

HomeReturned == called = "calculateMortgageDetails" /\ "propertyTax" \in DOMAIN inputs

\* the inputs without their escrow items
WithoutEscrow ==
  MortgageInputs(inputs.loanAmount, inputs.interestRate, inputs.loanTermYears)

\* C23: escrow items only affect the monthly payment reported.
\* calculateMortgageDetails returns monthlyPayment = monthlyPrincipalAndInterest
\* + (propertyTax + homeInsurance + pmi + hoaFees) / 12, to less than a cent
\* of rounding, and the same paymentSchedule, monthlyPrincipalAndInterest and
\* totalInterest as for the inputs without escrow items, hence as for any
\* inputs that differ in escrow items only.
C23_EscrowFrame ==
  HomeReturned =>
    LET yearly == inputs.propertyTax + inputs.homeInsurance + inputs.pmi
                    + inputs.hoaFees
        bare == calculateMortgageDetails(WithoutEscrow)
    IN /\ Abs(ret.monthlyPayment - ret.monthlyPrincipalAndInterest
                - RoundDiv(yearly, 12)) < Cent
       /\ ret.paymentSchedule = bare.paymentSchedule
       /\ ret.monthlyPrincipalAndInterest = bare.monthlyPrincipalAndInterest
       /\ ret.totalInterest = bare.totalInterest

\* C23 witness: details returned for inputs with all four escrow items, which
\* the monthly payment reported includes
C23_Witness ==
  /\ HomeReturned
  /\ inputs.propertyTax > 0 /\ inputs.homeInsurance > 0
  /\ inputs.pmi > 0 /\ inputs.hoaFees > 0
  /\ ret.monthlyPayment > ret.monthlyPrincipalAndInterest
  /\ Len(ret.paymentSchedule) = inputs.loanTermYears * 12


---------------------------------------------------------------------------
(* Properties of every schedule, with or without extra payments.           *)

\* the balance outstanding before payment k of a schedule, as emitted
BalanceBefore(schedule, k, loanAmount) ==
  IF k = 1 THEN loanAmount ELSE schedule[k - 1].remainingBalance

\* no entry pays more principal than was outstanding before it, a cent
\* allowed for the rounding of the two amounts; where nothing was outstanding
\* no principal is paid and the payment is the interest alone
PrincipalWithinBalance(schedule, loanAmount) ==
  \A k \in 1..Len(schedule) :
    LET before == BalanceBefore(schedule, k, loanAmount)
    IN /\ schedule[k].principalPayment <= before + Cent
       /\ before = 0 => /\ schedule[k].principalPayment = 0
                        /\ schedule[k].totalPayment = schedule[k].interestPayment

\* C24: in every generated schedule, without extras as well as with, the
\* principal paid by an entry never exceeds the balance outstanding before
\* it: a scheduled principal that would exceed it is clamped to the balance
\* and the entry's totalPayment is interest + clamped principal.
C24_PrincipalClamped ==
  /\ ScheduleReturned =>
       PrincipalWithinBalance(ret.paymentSchedule, inputs.currentLoanAmount)
  /\ RefinanceReturned =>
       /\ PrincipalWithinBalance(ret.currentMortgage.paymentSchedule,
                                 inputs.currentLoanAmount)
       /\ PrincipalWithinBalance(ret.newMortgage.paymentSchedule,
                                 inputs.newLoanAmount + inputs.cashOut)
       /\ PrincipalWithinBalance(ret.newMortgageWithExtras.paymentSchedule,
                                 inputs.newLoanAmount + inputs.cashOut)


\* no entry follows an entry that leaves nothing outstanding
EndsAtPayoff(schedule) ==
  \A k \in 1..(Len(schedule) - 1) : schedule[k].remainingBalance # 0

\* C25: schedule generation stops at payoff.  In the schedules of both
\* generators no entry is emitted after an entry whose remainingBalance is 0,
\* so only the last entry can have remainingBalance 0, small principals whose
\* balance is set to 0 before the term ends included.
C25_StopsAtPayoff ==
  /\ ScheduleReturned => EndsAtPayoff(ret.paymentSchedule)
  /\ RefinanceReturned =>
       /\ EndsAtPayoff(ret.currentMortgage.paymentSchedule)
       /\ EndsAtPayoff(ret.newMortgage.paymentSchedule)
       /\ EndsAtPayoff(ret.newMortgageWithExtras.paymentSchedule)


---------------------------------------------------------------------------
(* Properties of the loading flag.                                         *)

---------------------------------------------------------------------------
(* Properties of the inputs validateRefinanceInputs lets through.          *)

\* C27: whenever validateRefinanceInputs returns no errors, every loan
\* calculateRefinanceComparison amortizes has a principal > 0, a rate >= 0
\* and a term > 0; the new loan's principal newLoanAmount + cashOut is > 0
\* for every cashOut let through.
C27_AmortizedLoansValid ==
  (RefinanceValidated /\ ret = <<>>) =>
    LET newMortgageInputs == NewMortgageInputs(inputs)
    IN /\ inputs.currentLoanAmount > 0
       /\ inputs.currentInterestRate >= 0
       /\ inputs.currentRemainingYears > 0
       /\ newMortgageInputs.loanAmount > 0
       /\ newMortgageInputs.interestRate >= 0
       /\ newMortgageInputs.loanTermYears > 0


---------------------------------------------------------------------------
(* The two generators against each other.                                  *)

\* no extra monthly payment and the annual lump sum disabled
NoExtras == inputs.extraMonthlyPayment = 0 /\ ~inputs.enableAnnualPayment

\* C28: with extraMonthlyPayment = 0 and the annual lump sum disabled the
\* generator with extras produces the schedule generatePaymentSchedule
\* produces for the same loan, entry by entry and field by field, so
\* calculateMortgageWithExtras reports timeSavedMonths = 0 and
\* interestSaved = 0.
C28_NoExtrasSameSchedule ==
  (ExtrasReturned /\ NoExtras) =>
    /\ ret.paymentSchedule
         = generatePaymentSchedule(inputs.currentLoanAmount,
                                   inputs.currentInterestRate,
                                   inputs.currentRemainingYears)
    /\ ret.timeSavedMonths = 0
    /\ ret.interestSaved = 0


---------------------------------------------------------------------------
(* Balance conservation.                                                   *)

\* by how much entry k of a schedule departs from: balance after = balance
\* before - principal paid, all three as emitted
ConservationGap(schedule, k, loanAmount) ==
  Abs(schedule[k].remainingBalance
        - (BalanceBefore(schedule, k, loanAmount) - schedule[k].principalPayment))

Conserved(schedule, loanAmount) ==
  \A k \in 1..Len(schedule) : ConservationGap(schedule, k, loanAmount) <= Cent

\* C29: balance conservation.  In every generated schedule the
\* remainingBalance emitted by an entry is the remainingBalance emitted by the
\* entry before it (the loan amount for entry 1) less the principalPayment the
\* entry emits, within one cent.
C29_BalanceConservation ==
  /\ ScheduleReturned => Conserved(ret.paymentSchedule, inputs.currentLoanAmount)
  /\ RefinanceReturned =>
       /\ Conserved(ret.currentMortgage.paymentSchedule, inputs.currentLoanAmount)
       /\ Conserved(ret.newMortgage.paymentSchedule,
                    inputs.newLoanAmount + inputs.cashOut)
       /\ Conserved(ret.newMortgageWithExtras.paymentSchedule,
                    inputs.newLoanAmount + inputs.cashOut)

\* C30: in the result of calculateRefinanceComparison the
\* monthlyPrincipalAndInterest of newMortgageWithExtras is the fixed payment of
\* the new loan without the extras, the monthlyPrincipalAndInterest of
\* newMortgage, whatever extraMonthlyPayment >= 0 is paid.
C30_BaselinePayment ==
  (RefinanceReturned /\ inputs.extraMonthlyPayment >= 0) =>
    ret.newMortgageWithExtras.monthlyPrincipalAndInterest
      = ret.newMortgage.monthlyPrincipalAndInterest

=============================================================================
